---- MODULE Spec2Model ----
(***************************************************************************)
(* Prompt Architect (src/App.jsx): the App component's state, the image    *)
(* ingestion (processFile + FileReader.onloadend), the bounded-retry       *)
(* request pipeline (fetchWithRetry) and the analysis action               *)
(* (analyzeImage), as one state machine.                                   *)
(*                                                                         *)
(* JavaScript strings are sequences of tokens; null and undefined are the  *)
(* one-token sequences Null and Undefined, which no string of the program  *)
(* equals.                                                                 *)
(***************************************************************************)
EXTENDS Integers, Sequences, FiniteSets, TLC

VARIABLES
  image,        \* useState: base64 payload of the held image, or Null
  previewUrl,   \* useState: data URL shown as preview, or Null
  analyzing,    \* useState: an analysis is running
  results,      \* useState: the decoded analysis record, or NullResult
  error,        \* useState: the message shown to the user, or NoError
  apiKey,       \* module-level credential (fixed at load time)
  firebaseCfg,  \* whether the global __firebase_config is defined
  reading,      \* FileReaders started and not yet ended: file name -> count
  pc,           \* fetchWithRetry: "idle", "fetch" (awaiting fetch) or "sleep"
  i,            \* fetchWithRetry: loop index of the current attempt
  requests,     \* HTTP requests issued by the current/last fetchWithRetry call
  answered,     \* fetches of the current/last call that have settled
  seen,         \* the outcomes the transport gave the current/last call
  sleeps,       \* backoff delays (ms) started by the current/last call, in order
  fwr,          \* how the current/last fetchWithRetry call ended, and its value
  req,          \* inlineData part of the request body of the current/last call
  inflight,     \* number of analyzeImage pipelines started and not finished
  ignoredClick  \* the last event was a click on the disabled Deconstruct button

vars == <<image, previewUrl, analyzing, results, error, apiKey, firebaseCfg,
          reading, pc, i, requests, answered, seen, sleeps, fwr, req, inflight, ignoredClick>>

ui == <<image, previewUrl, analyzing, results, error>>
pipeline == <<pc, i, requests, answered, seen, sleeps, fwr, req, inflight>>

----------------------------------------------------------------------------
(* Bounds *)

\* FileReaders that may be pending at once
MaxPending == 2

----------------------------------------------------------------------------
(* JavaScript values *)

Null == <<"null">>
Undefined == <<"undefined">>

\* JS truthiness of a string-or-null value: null, undefined and "" are falsy
Truthy(v) == v # Null /\ v # Undefined /\ v # <<>>

NoError == "null"
NotImageMsg == "Please upload a valid image file."
MissingKeyMsg == "API Key missing. Ensure VITE_GEMINI_API_KEY is set in Vercel Environment Variables."
FailedMsg == "Analysis failed. Please try again later."

\* the ten keys of the response schema
Keys == {"subject", "location", "action", "mood", "style", "composition",
         "lighting", "quality", "negative", "master_prompt"}

NullResult == [kind |-> "null", keys |-> {}]
ObjectResult(ks) == [kind |-> "object", keys |-> ks]

----------------------------------------------------------------------------
(* Files the user can select *)

Files == {
  [name |-> "a.png", type |-> <<"image/", "png">>,  b64 |-> <<"A", "Q">>],
  [name |-> "b.jpg", type |-> <<"image/", "jpeg">>, b64 |-> <<"B">>],
  [name |-> "e.png", type |-> <<"image/", "png">>,  b64 |-> <<>>],
  [name |-> "c.txt", type |-> <<"text/", "plain">>, b64 |-> <<"C">>],
  [name |-> "d",     type |-> <<>>,                 b64 |-> <<"D">>] }

FileNames == {f.name : f \in Files}

\* String.prototype.startsWith
StartsWith(s, p) == Len(s) >= Len(p) /\ SubSeq(s, 1, Len(p)) = p

\* FileReader.readAsDataURL: "data:" type ";base64," payload
DataURL(f) == <<"data:">> \o f.type \o <<";base64", ",">> \o f.b64

\* String.prototype.split(sep): the segments between occurrences of sep
RECURSIVE Split(_, _)
Split(s, sep) ==
  IF \A k \in 1..Len(s) : s[k] # sep
    THEN <<s>>
    ELSE LET k == CHOOSE j \in 1..Len(s) :
                    s[j] = sep /\ \A m \in 1..(j-1) : s[m] # sep
         IN  <<SubSeq(s, 1, k-1)>> \o Split(SubSeq(s, k+1, Len(s)), sep)

\* array[idx] with JS 0-based index; undefined past the end
At(arr, idx) == IF idx + 1 <= Len(arr) THEN arr[idx + 1] ELSE Undefined

\* reader.result.split(',')[1]
Base64Part(url) == At(Split(url, ","), 1)

\* a type check that lets every file through
AcceptsAnyType(f) == TRUE

\* file.type.startsWith('image/')
IsImageType(f) == StartsWith(f.type, <<"image/">>)

RECURSIVE Count(_, _)
Count(r, S) ==
  IF S = {} THEN 0
  ELSE LET n == CHOOSE x \in S : TRUE IN r[n] + Count(r, S \ {n})

\* FileReaders started whose onloadend has not run yet
Pending == Count(reading, FileNames)

----------------------------------------------------------------------------
(* Rendering conditions of the controls *)

\* the drop zone opens the file dialog only while no preview is shown;
\* the Change Image button is rendered over a preview when idle
CanPickFile == ~Truthy(previewUrl) \/ (results.kind # "object" /\ ~analyzing)

\* the Deconstruct Image button is rendered
AnalyzeRendered == Truthy(previewUrl) /\ results.kind # "object"

\* a button that is never disabled
NeverDisabled == FALSE

\* disabled={analyzing}
AnalyzeDisabled == analyzing

\* a reset button rendered next to every preview
ResetWithPreview == Truthy(previewUrl)

\* the Start New Analysis button is rendered
ResetRendered == results.kind = "object"

----------------------------------------------------------------------------
Init ==
  /\ image = Null
  /\ previewUrl = Null
  /\ analyzing = FALSE
  /\ results = NullResult
  /\ error = NoError
  /\ apiKey \in {<<>>, <<"k">>}
  /\ firebaseCfg \in BOOLEAN
  \* with a credential the && short-circuits and the global is never read
  /\ apiKey = <<>> \/ ~firebaseCfg
  /\ reading = [n \in FileNames |-> 0]
  /\ pc = "idle"
  /\ i = 0
  /\ requests = 0
  /\ answered = 0
  /\ seen = {}
  /\ sleeps = <<>>
  /\ fwr = [state |-> "none", n |-> 0, text |-> "undefined", keys |-> {}]
  /\ req = [mimeType |-> Null, data |-> Null]
  /\ inflight = 0
  /\ ignoredClick = FALSE

----------------------------------------------------------------------------
(* Image ingestion *)

\* a processFile that drops the held image when it rejects a file
SelectFileDropsImage(f) ==
  /\ CanPickFile
  /\ ignoredClick' = FALSE
  /\ IF ~IsImageType(f)
       THEN /\ error' = NotImageMsg
            /\ image' = Null
            /\ previewUrl' = Null
            /\ UNCHANGED <<analyzing, results, reading>>
       ELSE /\ Pending < MaxPending
            /\ error' = NoError
            /\ results' = NullResult
            /\ reading' = [reading EXCEPT ![f.name] = @ + 1]
            /\ UNCHANGED <<image, previewUrl, analyzing>>
  /\ UNCHANGED <<apiKey, firebaseCfg>>
  /\ UNCHANGED pipeline

\* handleFileChange -> processFile(file)
SelectFile(f) ==
  /\ CanPickFile
  /\ ignoredClick' = FALSE
  /\ IF ~IsImageType(f)
       THEN /\ error' = NotImageMsg
            /\ UNCHANGED <<image, previewUrl, analyzing, results, reading>>
       ELSE /\ Pending < MaxPending
            /\ error' = NoError
            /\ results' = NullResult
            /\ reading' = [reading EXCEPT ![f.name] = @ + 1]
            /\ UNCHANGED <<image, previewUrl, analyzing>>
  /\ UNCHANGED <<apiKey, firebaseCfg>>
  /\ UNCHANGED pipeline

\* reader.onloadend: reader.result is the data URL, or null when the read failed
\* (then setPreviewUrl(null) runs and reader.result.split throws)
LoadEnd(f, ok) ==
  /\ reading[f.name] > 0
  /\ reading' = [reading EXCEPT ![f.name] = @ - 1]
  /\ ignoredClick' = FALSE
  /\ IF ok
       THEN /\ previewUrl' = DataURL(f)
            /\ image' = Base64Part(DataURL(f))
       ELSE /\ previewUrl' = Null
            /\ image' = image
  /\ UNCHANGED <<analyzing, results, error, apiKey, firebaseCfg>>
  /\ UNCHANGED pipeline

----------------------------------------------------------------------------
(* The transport: what one fetch(url, options) can settle to *)

\* status 0 stands for a rejected fetch (network failure: no response);
\* json: response.json() resolves; text/keys: what the nested generated
\* text candidates[0].content.parts[0].text parses to
NoBody == [json |-> FALSE, text |-> "invalid", keys |-> {}]
Outcome(s, b) == [status |-> s, json |-> b.json, text |-> b.text, keys |-> b.keys]

Bodies ==
  { NoBody,
    [json |-> TRUE, text |-> "invalid", keys |-> {}],
    [json |-> TRUE, text |-> "null",    keys |-> {}],
    [json |-> TRUE, text |-> "object",  keys |-> Keys],
    [json |-> TRUE, text |-> "object",  keys |-> Keys \ {"master_prompt"}] }

Outcomes ==
  {Outcome(s, NoBody) : s \in {0, 404, 429, 500}} \cup {Outcome(200, b) : b \in Bodies}

Rejected(o) == o.status = 0
\* response.ok
Ok(o) == o.status >= 200 /\ o.status <= 299
\* response.status === 429 || response.status >= 500
Retryable(o) == o.status = 429 \/ o.status >= 500

----------------------------------------------------------------------------
(* fetchWithRetry *)

\* maxRetries = 5
MaxRetries == 5

RECURSIVE Pow2(_)
Pow2(k) == IF k = 0 THEN 1 ELSE 2 * Pow2(k - 1)

\* a backoff that grows by one second per attempt
LinearDelay(k) == (k + 1) * 1000

\* a backoff that starts at two seconds
DelayFromTwo(k) == Pow2(k + 1) * 1000

\* Math.pow(2, i) * 1000
Delay(k) == Pow2(k) * 1000

\* a catch block whose last-attempt test is off by one (i === maxRetries)
AttemptOffByOne(k, o) ==
  IF ~Rejected(o) /\ Ok(o) /\ o.json
    THEN "return"
  ELSE IF ~Rejected(o) /\ ~Ok(o) /\ Retryable(o)
    THEN "sleep"
  ELSE IF k = MaxRetries THEN "throw" ELSE "sleep"

\* a loop that does not return on a decoded 2xx answer but backs off
AttemptNoReturn(k, o) ==
  IF ~Rejected(o) /\ Ok(o) /\ o.json
    THEN "sleep"
  ELSE IF ~Rejected(o) /\ ~Ok(o) /\ Retryable(o)
    THEN "sleep"
  ELSE IF k = MaxRetries - 1 THEN "throw" ELSE "sleep"

\* what iteration k of the loop does with the outcome o of its fetch:
\* "return" the decoded body, "sleep" and go on, or "throw" to the caller
Attempt(k, o) ==
  IF ~Rejected(o) /\ Ok(o) /\ o.json
    THEN "return"
  ELSE IF ~Rejected(o) /\ ~Ok(o) /\ Retryable(o)
    THEN "sleep"
  \* fetch rejected, response.json() rejected or `throw new Error(API Error)`:
  \* all land in the catch block
  ELSE IF k = MaxRetries - 1 THEN "throw" ELSE "sleep"

Returned(n, o) == [state |-> "returned", n |-> n, text |-> o.text, keys |-> o.keys]
ReturnedUndefined == [state |-> "returned", n |-> 0, text |-> "undefined", keys |-> {}]
Threw == [state |-> "threw", n |-> 0, text |-> "undefined", keys |-> {}]
Running == [state |-> "running", n |-> 0, text |-> "undefined", keys |-> {}]

----------------------------------------------------------------------------
(* analyzeImage *)

\* a credential check with the test of apiKey inverted
InvertedKeyCheck == apiKey # <<>> /\ ~firebaseCfg

\* !apiKey && typeof __firebase_config === 'undefined'
MissingCredential == apiKey = <<>> /\ ~firebaseCfg

\* JSON.parse(result.candidates[0].content.parts[0].text) yields a value
Parses(r) == r.state = "returned" /\ r.text \in {"null", "object"}

\* the value setResults receives
Parsed(r) == IF r.text = "object" THEN ObjectResult(r.keys) ELSE NullResult

\* analyzeImage after `await fetchWithRetry(...)` settled as r:
\* parse and setResults, or the catch block; then finally
Settle(r) ==
  /\ fwr' = r
  /\ pc' = "idle"
  /\ IF Parses(r)
       THEN /\ results' = Parsed(r)
            /\ error' = error
       ELSE /\ error' = FailedMsg
            /\ results' = results
  /\ analyzing' = FALSE
  /\ inflight' = inflight - 1
  /\ UNCHANGED <<image, previewUrl>>

\* click on the Deconstruct Image button
ClickAnalyze ==
  /\ AnalyzeRendered
  /\ UNCHANGED <<apiKey, firebaseCfg, reading>>
  /\ IF AnalyzeDisabled
       THEN /\ ignoredClick' = TRUE
            /\ UNCHANGED ui
            /\ UNCHANGED pipeline
     ELSE IF ~Truthy(image)
       THEN /\ ignoredClick' = FALSE
            /\ UNCHANGED ui
            /\ UNCHANGED pipeline
     ELSE IF MissingCredential
       THEN /\ ignoredClick' = FALSE
            /\ error' = MissingKeyMsg
            /\ UNCHANGED <<image, previewUrl, analyzing, results>>
            /\ UNCHANGED pipeline
       ELSE /\ ignoredClick' = FALSE
            /\ analyzing' = TRUE
            /\ error' = NoError
            /\ req' = [mimeType |-> <<"image/", "png">>, data |-> image]
            /\ inflight' = inflight + 1
            /\ i' = 0
            /\ requests' = 1
            /\ answered' = 0
            /\ seen' = {}
            /\ sleeps' = <<>>
            /\ fwr' = Running
            /\ pc' = "fetch"
            /\ UNCHANGED <<image, previewUrl, results>>

\* the pending fetch settles with outcome o
FetchSettles(o) ==
  /\ pc = "fetch"
  /\ ignoredClick' = FALSE
  /\ answered' = answered + 1
  /\ seen' = seen \cup {o}
  /\ UNCHANGED <<apiKey, firebaseCfg, reading, req, requests, i>>
  /\ IF Attempt(i, o) = "return"
       THEN /\ Settle(Returned(requests, o))
            /\ sleeps' = sleeps
     ELSE IF Attempt(i, o) = "throw"
       THEN /\ Settle(Threw)
            /\ sleeps' = sleeps
       ELSE /\ sleeps' = Append(sleeps, Delay(i))
            /\ pc' = "sleep"
            /\ UNCHANGED <<fwr, inflight>>
            /\ UNCHANGED ui

\* the backoff timer fires: next iteration, or the loop ends and the
\* function returns undefined
TimerFires ==
  /\ pc = "sleep"
  /\ ignoredClick' = FALSE
  /\ i' = i + 1
  /\ UNCHANGED <<apiKey, firebaseCfg, reading, req, answered, seen, sleeps>>
  /\ IF i + 1 < MaxRetries
       THEN /\ requests' = requests + 1
            /\ pc' = "fetch"
            /\ UNCHANGED <<fwr, inflight>>
            /\ UNCHANGED ui
       ELSE /\ Settle(ReturnedUndefined)
            /\ requests' = requests

\* click on the Start New Analysis button
ClickReset ==
  /\ ResetRendered
  /\ ignoredClick' = FALSE
  /\ image' = Null
  /\ previewUrl' = Null
  /\ results' = NullResult
  /\ error' = NoError
  /\ UNCHANGED <<analyzing, apiKey, firebaseCfg, reading>>
  /\ UNCHANGED pipeline

----------------------------------------------------------------------------
Next ==
  \/ \E f \in Files : SelectFile(f)
  \/ \E f \in Files, ok \in BOOLEAN : LoadEnd(f, ok)
  \/ ClickAnalyze
  \/ \E o \in Outcomes : FetchSettles(o)
  \/ TimerFires
  \/ ClickReset

Spec == Init /\ [][Next]_vars

\* every fetch settles (resolves or rejects) and every setTimeout fires
FairSpec ==
  /\ Spec
  /\ WF_vars(\E o \in Outcomes : FetchSettles(o))
  /\ WF_vars(TimerFires)

----------------------------------------------------------------------------
(* RequestState, as the component's flags encode it *)

StateOf ==
  IF analyzing THEN "InFlight"
  ELSE IF results.kind = "object" THEN "Succeeded"
  ELSE IF ~Truthy(image) THEN "Idle"
  ELSE IF error # NoError THEN "Failed"
  ELSE "HasImage"

\* the last fetchWithRetry call has returned or thrown
Ended == fwr.state \in {"returned", "threw"}

RECURSIVE SumSeq(_)
SumSeq(q) == IF q = <<>> THEN 0 ELSE Head(q) + SumSeq(Tail(q))

\* total backoff of the current/last call, in ms
Slept == SumSeq(sleeps)

\* the part of a string after its first occurrence of sep
AfterFirst(s, sep) ==
  LET k == CHOOSE j \in 1..Len(s) : s[j] = sep /\ \A m \in 1..(j-1) : s[m] # sep
  IN  SubSeq(s, k + 1, Len(s))

OkDecodable(o) == o.status >= 200 /\ o.status <= 299 /\ o.json

----------------------------------------------------------------------------
(* Claims *)

\* C1: when the transport answers every request with 404, fetchWithRetry
\* fails on the first attempt: one request, no backoff sleep, an error
\* raised to the caller.
C1_NotFoundFailsAtOnce ==
  (seen = {Outcome(404, NoBody)}) =>
    (requests = 1 /\ sleeps = <<>> /\ fwr.state = "threw")

\* C2: when the transport answers every request with 500, fetchWithRetry
\* issues exactly maxRetries requests, sleeps only between consecutive
\* attempts (maxRetries - 1 doubling delays) and ends by raising an error,
\* never by returning undefined.
C2_ServerErrorExhaustsAndRaises ==
  (Ended /\ seen = {Outcome(500, NoBody)}) =>
    /\ requests = MaxRetries
    /\ Len(sleeps) = MaxRetries - 1
    /\ \A k \in 1..Len(sleeps) : sleeps[k] = 1000 * 2^(k - 1)
    /\ fwr.state = "threw"

\* C3: when the transport answers 429 to the first N-1 requests and a 2xx
\* with a decodable body to the Nth (1 <= N <= maxRetries), fetchWithRetry
\* issues exactly N requests, returns the body of the Nth response and has
\* slept 1000 * (2^(N-1) - 1) ms in total, with nothing after the success.
C3_ThrottledThenOk ==
  (/\ Ended
   /\ \E o \in seen : OkDecodable(o)
   /\ \A o \in seen : OkDecodable(o) \/ o.status = 429) =>
    LET N  == answered
        ok == CHOOSE o \in seen : OkDecodable(o)
    IN  /\ N \in 1..MaxRetries
        /\ requests = N
        /\ fwr = [state |-> "returned", n |-> N, text |-> ok.text, keys |-> ok.keys]
        /\ Len(sleeps) = N - 1
        /\ Slept = 1000 * (2^(N - 1) - 1)
        /\ pc = "idle"

C3_Witness ==
  /\ Ended
  /\ seen = {Outcome(429, NoBody), Outcome(200, [json |-> TRUE, text |-> "object", keys |-> Keys])}
  /\ answered = MaxRetries
  /\ Slept = 15000

\* C4 (as stated): a click on analyze with an image held and an empty apiKey
\* sets the missing-credential error, leaves the image and analyzing = false
\* alone and issues no HTTP request.
C4_EmptyKeyNoRequest ==
  [][(ClickAnalyze /\ Truthy(image) /\ apiKey = <<>>) =>
       /\ error' = MissingKeyMsg
       /\ image' = image
       /\ analyzing' = FALSE
       /\ UNCHANGED pipeline]_vars

\* C4 (amended): the same, when apiKey is empty and the global
\* __firebase_config is not defined.
C4_NoCredentialNoRequest ==
  [][(ClickAnalyze /\ Truthy(image) /\ apiKey = <<>> /\ ~firebaseCfg) =>
       /\ error' = MissingKeyMsg
       /\ image' = image
       /\ analyzing' = FALSE
       /\ UNCHANGED pipeline]_vars

C4_Witness ==
  /\ apiKey = <<>> /\ ~firebaseCfg
  /\ Truthy(image)
  /\ error = MissingKeyMsg
  /\ requests = 0 /\ ~analyzing

\* C5: at most one pipeline is in flight, and a click on analyze while
\* analyzing = true changes nothing: no second fetchWithRetry call, no
\* further HTTP request.
C5_SingleFlight ==
  [][/\ inflight' <= 1
     /\ (analyzing /\ ClickAnalyze) => (UNCHANGED ui /\ UNCHANGED pipeline)]_vars

C5_Witness == ignoredClick /\ analyzing /\ inflight = 1 /\ pc = "fetch"

\* C6: selecting a file whose media type does not start with image/ sets
\* the not-an-image error and changes nothing else: image, preview and
\* result stay as they were and no read is started.
C6_InvalidFileOnlyError ==
  [][\A f \in Files :
       (SelectFile(f) /\ (Len(f.type) = 0 \/ f.type[1] # "image/")) =>
          /\ error' = NotImageMsg
          /\ UNCHANGED <<image, previewUrl, results, analyzing, reading>>]_vars

C6_Witness ==
  error = NotImageMsg /\ Truthy(image) /\ Truthy(previewUrl) /\ Pending = 0

\* C7: when the read of a valid image file completes, the payload is the
\* part of its data URL after the first comma, the preview is the whole data
\* URL, and no result and no error are held.
C7_IngestCompletes ==
  [][\A f \in Files :
       LoadEnd(f, TRUE) =>
          /\ image' = AfterFirst(DataURL(f), ",")
          /\ previewUrl' = DataURL(f)
          /\ results' = NullResult
          /\ error' = NoError]_vars

\* C8: a stored analysis result always has all ten keys.
C8_ResultHasAllKeys == results.kind = "object" => results.keys = Keys

\* C9: every step in which the pipeline fails (fetchWithRetry threw or
\* returned nothing, or the nested text did not parse) ends with the fixed
\* message, no result, the image retained and the analyze button rendered
\* and enabled.
C9_FailureAllowsRetry ==
  [][(analyzing /\ ~analyzing'
        /\ (fwr'.state = "threw" \/ fwr'.text \in {"undefined", "invalid"})) =>
       /\ error' = FailedMsg
       /\ results' = NullResult
       /\ image' = image
       /\ AnalyzeRendered' /\ ~AnalyzeDisabled']_vars

\* C10 (as stated): in Succeeded, Failed and HasImage the reset action can
\* be invoked.
C10_ResetOffered ==
  StateOf \in {"Succeeded", "Failed", "HasImage"} => ResetRendered

\* C10 (amended): the reset action can be invoked in Succeeded, and only
\* there; invoking it leads to Idle with image, preview, result and error
\* all cleared.
C10_ResetFromSucceeded ==
  [][/\ (StateOf = "Succeeded") => ENABLED ClickReset
     /\ ClickReset =>
          /\ StateOf = "Succeeded"
          /\ StateOf' = "Idle"
          /\ image' = Null /\ previewUrl' = Null
          /\ results' = NullResult /\ error' = NoError]_vars

C10_Witness ==
  /\ fwr.state = "returned" /\ fwr.text = "object"
  /\ image = Null /\ previewUrl = Null
  /\ results = NullResult /\ error = NoError
  /\ Pending = 0

\* C11: when the fetch rejects or the body of a 2xx does not decode, the
\* last attempt (maxRetries - 1) propagates the error with no sleep; an
\* earlier attempt i sleeps exactly 2^i * 1000 ms, and the timer then issues
\* the next request.
C11_ThrowRetriedUntilLast ==
  [][/\ \A o \in Outcomes :
          (FetchSettles(o) /\ (o.status = 0 \/ (o.status = 200 /\ ~o.json))) =>
             IF i = MaxRetries - 1
               THEN /\ fwr'.state = "threw"
                    /\ sleeps' = sleeps
                    /\ pc' = "idle"
                    /\ requests' = requests
               ELSE /\ sleeps' = Append(sleeps, 1000 * 2^i)
                    /\ pc' = "sleep"
                    /\ fwr' = fwr
     /\ (TimerFires /\ i < MaxRetries - 1) =>
          (pc' = "fetch" /\ requests' = requests + 1 /\ i' = i + 1)]_vars

C11_Witness ==
  /\ fwr.state = "threw"
  /\ seen = {Outcome(0, NoBody), Outcome(200, NoBody)}
  /\ answered = MaxRetries
  /\ sleeps = <<1000, 2000, 4000, 8000>>

\* C12: an analysis that enters InFlight leaves it with analyzing = false
\* and the state Succeeded (a result stored) or Failed (an error set).
C12_EndsSucceededOrFailed ==
  [][(analyzing /\ ~analyzing') =>
       (results'.kind = "object" \/ error' # NoError)]_vars

\* the liveness half of C12: InFlight is always left
C12_LeavesInFlight == analyzing ~> ~analyzing

\* C13: ingestion of a valid file is applied in one step at read
\* completion: selecting the file does not already clear the error or the
\* result while the previous image is still held, and a held payload and
\* preview always come from the same file.
C13_AtomicIngestion ==
  [][/\ \A f \in Files :
          (SelectFile(f) /\ Len(f.type) > 0 /\ f.type[1] = "image/" /\ Truthy(image)) =>
             (error' = error /\ results' = results)
     /\ (Truthy(image') /\ Truthy(previewUrl')) =>
          image' = AfterFirst(previewUrl', ",")]_vars

\* C14 (as stated): selecting an invalid file in Idle or HasImage leads to
\* Idle with the error set and no image retained: payload and preview are
\* both empty afterwards.
C14_InvalidFileDropsImage ==
  [][\A f \in Files :
       (SelectFile(f) /\ (Len(f.type) = 0 \/ f.type[1] # "image/")
          /\ StateOf \in {"Idle", "HasImage"}) =>
          /\ error' = NotImageMsg
          /\ StateOf' = "Idle"
          /\ image' = Null /\ previewUrl' = Null]_vars

\* C14 (amended): selecting an invalid file in Idle or HasImage sets the
\* error and keeps payload and preview as they were: from Idle the state
\* stays Idle, from HasImage the image stays held.
C14_InvalidFileKeepsImage ==
  [][\A f \in Files :
       (SelectFile(f) /\ (Len(f.type) = 0 \/ f.type[1] # "image/")
          /\ StateOf \in {"Idle", "HasImage"}) =>
          /\ error' = NotImageMsg
          /\ image' = image /\ previewUrl' = previewUrl
          /\ (StateOf = "Idle") => (StateOf' = "Idle")
          /\ (StateOf = "HasImage") => (Truthy(image') /\ StateOf' # "Idle")]_vars

C14_Witness ==
  /\ error = NotImageMsg
  /\ image = <<"B">>
  /\ previewUrl = DataURL([name |-> "b.jpg", type |-> <<"image/", "jpeg">>, b64 |-> <<"B">>])
  /\ results = NullResult /\ ~analyzing
  /\ fwr.state = "none"

\* C15: the inline image part of every outbound request carries the media
\* type of the ingested file and the held base64 payload: when an analysis
\* starts, the request's data is the held payload, and its mimeType is the
\* declared type of the file whose payload is held.
C15_RequestTaggedWithFileType ==
  [][(ClickAnalyze /\ ~analyzing /\ analyzing') =>
       /\ req'.data = image
       /\ \A f \in Files :
            (IsImageType(f) /\ Truthy(previewUrl) /\ previewUrl = DataURL(f)) =>
               req'.mimeType = f.type]_vars

\* C16: backoff is unjittered and doubles from 1000 ms: the k-th sleep of a
\* call (after failed attempt k-1) lasts exactly 2^(k-1) * 1000 ms, a sleep
\* in progress belongs to the current attempt, there are at most maxRetries
\* sleeps, and the total sleep of one call never exceeds 31000 ms.
C16_BackoffDoubles ==
  /\ \A k \in 1..Len(sleeps) : sleeps[k] = 1000 * 2^(k - 1)
  /\ Len(sleeps) <= MaxRetries
  /\ (pc = "sleep") => (Len(sleeps) = i + 1)
  /\ Slept <= 31000

C16_Witness ==
  /\ sleeps = <<1000, 2000, 4000, 8000, 16000>>
  /\ Slept = 31000
  /\ seen = {Outcome(429, NoBody), Outcome(0, NoBody)}

\* C17: whenever an analysis result is stored, it was produced from the image
\* that is currently held and previewed: the payload sent in the request that
\* produced it is the held payload and the payload of the displayed preview.
C17_ResultOfDisplayedImage ==
  (results.kind = "object" /\ Truthy(image) /\ Truthy(previewUrl)) =>
     /\ image = req.data
     /\ AfterFirst(previewUrl, ",") = req.data

\* C18: the UI flags encode exactly one request state: a stored result and
\* an error message are never both present, a result is never present while
\* analyzing, and a result or analyzing implies that an image is held.
C18_OneRequestState ==
  /\ ~(results.kind = "object" /\ error # NoError)
  /\ ~(results.kind = "object" /\ analyzing)
  /\ (results.kind = "object" \/ analyzing) => Truthy(image)

\* steps the running call can still take: two per remaining iteration
\* (fetch, sleep), one less once the fetch of the current one has settled
StepsLeft == 2 * (MaxRetries - i) - (IF pc = "sleep" THEN 1 ELSE 0)

\* C19: for every sequence of transport outcomes one fetchWithRetry call
\* terminates after at most maxRetries requests: the request count never
\* exceeds maxRetries, every step of a running call ends it or uses up one of
\* its finitely many remaining steps, and a running call always ends; after a
\* 2xx answer with a decodable body the call has ended and every request it
\* issued has been answered (none is issued afterwards).
C19_CallTerminates ==
  /\ [](/\ requests <= MaxRetries
        /\ answered <= requests
        /\ (fwr.state = "running") => (i < MaxRetries /\ requests = i + 1 /\ StepsLeft > 0)
        /\ (\E o \in seen : OkDecodable(o)) => (Ended /\ pc = "idle" /\ requests = answered))
  /\ [][(fwr.state = "running" /\ pipeline' # pipeline) =>
          (Ended' \/ StepsLeft' < StepsLeft)]_vars
  /\ ((fwr.state = "running") ~> Ended)

C19_Witness ==
  /\ fwr.state = "returned"
  /\ fwr.n = MaxRetries
  /\ requests = MaxRetries /\ answered = MaxRetries
  /\ \E o \in seen : OkDecodable(o)
  /\ Cardinality(seen) = 3

====
